---- MODULE Spec2Model ----
(***************************************************************************)
(* Story Generator front end (asusoda/BootcampFrontend).                   *)
(*                                                                         *)
(* The session state owned by App (story, currentPage, isLoading, error),  *)
(* the PromptBar form, the NavigationButtons control and the Book view,    *)
(* together with the single generation request that may be in flight.      *)
(*                                                                         *)
(* Strings that the program inspects character by character (the prompt,   *)
(* a part's text) are sequences of one-character strings; the HTML that    *)
(* Book produces is a sequence of characters and tag tokens.               *)
(***************************************************************************)
EXTENDS Integers, Sequences, FiniteSets, TLC

VARIABLES story, currentPage, isLoading, error, prompt, inflight,
          lastEvent, prev, txt, html

vars == <<story, currentPage, isLoading, error, prompt, inflight,
          lastEvent, prev, txt, html>>

(* ------------------------------ bounds --------------------------------- *)
\* longest parts list a response carries
MaxParts == 3
\* capacity of the network: requests that can be outstanding at once
MaxOutstanding == 2
\* longest text handed to the Book transform in the text harness
MaxTextLen == 5

(* ------------------------------ values --------------------------------- *)
\* JavaScript null, and a present value
Null == <<>>
Some(x) == <<x>>
Val(o) == o[1]

SP == " "
NL == "\n"

\* \s of the regular expressions and of String.prototype.trim
IsSpace(c) == c \in {SP, NL}

\* values the user can type into the prompt input
Prompts == { <<>>, <<SP>>, <<"a">>, <<SP, "a", SP>> }

\* texts and images the backend sends
TextBold == <<"*", "*", "a", "*", "*">>
TextHeading == <<"#", "#", SP, "b">>
Image1 == "data:image/png;base64,AAA"
Image2 == "data:image/png;base64,BBB"

\* parts of a response: either field may be missing
PartPool == { [text |-> TextBold, image |-> Image1],
              [text |-> TextHeading],
              [image |-> Image2] }

Stories == { [title |-> "Mouse Tale", parts |-> ps] :
               ps \in UNION { [1..n -> PartPool] : n \in 0..MaxParts } }

\* the ways a generation request fails
FailureKinds == {"network", "status", "malformed"}

(* --------------------- String.prototype.trim --------------------------- *)
RECURSIVE TrimStart(_)
TrimStart(s) ==
  IF s # <<>> /\ IsSpace(Head(s)) THEN TrimStart(Tail(s)) ELSE s

RECURSIVE TrimEnd(_)
TrimEnd(s) ==
  IF s # <<>> /\ IsSpace(s[Len(s)]) THEN TrimEnd(SubSeq(s, 1, Len(s) - 1)) ELSE s

trim(s) == TrimEnd(TrimStart(s))

(* ----------------------------- PromptBar ------------------------------- *)
\* the condition of handleSubmit: prompt.trim() && !isLoading
canSubmitIgnoringLoading(p, loading) == trim(p) # <<>>
canSubmitEitherCondition(p, loading) == trim(p) # <<>> \/ ~loading
canSubmit(p, loading) == trim(p) # <<>> /\ ~loading

\* the argument handleSubmit passes to onGenerate
submittedPromptUntrimmed(p) == p
submittedPrompt(p) == trim(p)

\* the input field is disabled while loading
inputDisabled(loading) == loading

(* -------------------------------- App ---------------------------------- *)
\* useState(1)
initialPageZeroBased == 1 - 1
initialPage == 1

ErrorMessage == "Failed to generate story. Please try again."

\* handleGenerateStory, up to its await: the flag is set and one request goes out
handleGenerateStory(p) ==
  /\ isLoading' = TRUE
  /\ inflight' = Append(inflight, [prompt |-> p])

\* handleGenerateStory after a successful response carrying story s
GenerateSucceededKeepsPage(st, s) ==
  [story |-> Some(s), currentPage |-> st.currentPage,
   error |-> st.error, isLoading |-> FALSE]
GenerateSucceeded(st, s) ==
  [story |-> Some(s), currentPage |-> 1,
   error |-> st.error, isLoading |-> FALSE]

\* handleGenerateStory after a failure of any kind
GenerateFailedDropsStory(st, kind) ==
  [story |-> Null, currentPage |-> 1,
   error |-> Some(ErrorMessage), isLoading |-> FALSE]
GenerateFailed(st, kind) ==
  [story |-> st.story, currentPage |-> st.currentPage,
   error |-> Some(ErrorMessage), isLoading |-> FALSE]

\* the parts of the stored story; none when no story is stored
partsOf(st) == IF st = Null THEN <<>> ELSE Val(st).parts

\* the page count handed to Book and NavigationButtons
totalPagesOf(st) == IF Len(partsOf(st)) >= 1 THEN Len(partsOf(st)) ELSE 1

\* the text and image of the current page
derive(parts, page) ==
  LET inRange == page >= 1 /\ page <= Len(parts)
  IN [leftText   |-> IF inRange /\ "text" \in DOMAIN parts[page]
                     THEN parts[page].text ELSE <<>>,
      rightImage |-> IF inRange /\ "image" \in DOMAIN parts[page]
                     THEN parts[page].image ELSE "",
      totalPages |-> IF Len(parts) >= 1 THEN Len(parts) ELSE 1]

\* handleNextPage and handlePreviousPage
handleNextPage(page, total) == IF page < total THEN page + 1 ELSE page
handlePreviousPage(page) == IF page > 1 THEN page - 1 ELSE page

(* ------------------------- NavigationButtons --------------------------- *)
\* hasStory={!!story}
hasStory(st) == st # Null

\* if (!hasStory) return null
navRendered(has) == has

\* disabled={currentPage <= 1} and disabled={currentPage >= totalPages}
previousDisabled(page, total) == page <= 1
nextDisabledOneEarly(page, total) == page + 1 >= total
nextDisabled(page, total) == page >= total

\* Array.from({ length: totalPages }, (_, i) => ...): the dot indices i
dots(total) == 0 .. (total - 1)

\* i + 1 === currentPage
dotHighlightedZeroBased(i, page) == i = page
dotHighlighted(i, page) == i + 1 = page

(* -------------------------------- Book --------------------------------- *)
STRONG_OPEN == "<strong>"
STRONG_CLOSE == "</strong>"
H3_OPEN == "<h3 class=\"text-lg font-bold mb-3 text-amber-700\">"
H3_CLOSE == "</h3>"

\* (.*?)\*\* tried from index j: the index of the nearest closing ** that is
\* reachable without crossing a line terminator, 0 when there is none
RECURSIVE boldClose(_, _)
boldClose(s, j) ==
  IF j + 1 > Len(s) THEN 0
  ELSE IF s[j] = "*" /\ s[j + 1] = "*" THEN j
  ELSE IF s[j] = NL THEN 0
  ELSE boldClose(s, j + 1)

\* .replace(/\*\*(.*?)\*\*/g, "<strong>$1</strong>") from index i on
RECURSIVE replaceBold(_, _)
replaceBold(s, i) ==
  IF i > Len(s) THEN <<>>
  ELSE IF /\ i + 1 <= Len(s)
          /\ s[i] = "*" /\ s[i + 1] = "*"
          /\ boldClose(s, i + 2) # 0
       THEN LET j == boldClose(s, i + 2)
            IN <<STRONG_OPEN>> \o SubSeq(s, i + 2, j - 1) \o <<STRONG_CLOSE>>
                 \o replaceBold(s, j + 2)
       ELSE <<s[i]>> \o replaceBold(s, i + 1)

\* \s* from index j: the first index that is not white space
RECURSIVE skipSpace(_, _)
skipSpace(s, j) ==
  IF j <= Len(s) /\ IsSpace(s[j]) THEN skipSpace(s, j + 1) ELSE j

\* (.*?)(?=\n|$) from index j: the index of the next line terminator, or Len+1
RECURSIVE lineEnd(_, _)
lineEnd(s, j) ==
  IF j > Len(s) \/ s[j] = NL THEN j ELSE lineEnd(s, j + 1)

\* .replace(/##\s*(.*?)(?=\n|$)/g, '<h3 class="...">$1</h3>') from index i on
RECURSIVE replaceHeading(_, _)
replaceHeading(s, i) ==
  IF i > Len(s) THEN <<>>
  ELSE IF i + 1 <= Len(s) /\ s[i] = "#" /\ s[i + 1] = "#"
       THEN LET p == skipSpace(s, i + 2)
                e == lineEnd(s, p)
            IN <<H3_OPEN>> \o SubSeq(s, p, e - 1) \o <<H3_CLOSE>>
                 \o replaceHeading(s, e)
       ELSE <<s[i]>> \o replaceHeading(s, i + 1)

\* the __html handed to dangerouslySetInnerHTML
innerHTML(leftContent) == replaceHeading(replaceBold(leftContent, 1), 1)

\* leftContent ? <div html> : <start placeholder>
leftShowsTextUnlessUndefined(leftContent) == TRUE
leftShowsText(leftContent) == leftContent # <<>>

\* rightImage ? <img> : <placeholder illustration>
rightShowsImage(rightImage) == rightImage # ""

Book(leftContent, rightImage) ==
  [left  |-> IF leftShowsText(leftContent)
             THEN [kind |-> "text", html |-> innerHTML(leftContent)]
             ELSE [kind |-> "startPlaceholder"],
   right |-> IF rightShowsImage(rightImage)
             THEN [kind |-> "img", src |-> rightImage]
             ELSE [kind |-> "placeholderIllustration"]]

(* ------------------------- what App renders ---------------------------- *)
totalPages == totalPagesOf(story)
pageContent == derive(partsOf(story), currentPage)
bookView == Book(pageContent.leftText, pageContent.rightImage)
navVisible == navRendered(hasStory(story))
highlightedDots == { i \in dots(totalPages) : dotHighlighted(i, currentPage) }

(* ----------------------------- the session ----------------------------- *)
session == [story |-> story, currentPage |-> currentPage,
            isLoading |-> isLoading, error |-> error,
            prompt |-> prompt, inflight |-> inflight]

\* the event just handled and the session it was handled in
Record(ev) == lastEvent' = ev /\ prev' = session

Init ==
  /\ story = Null
  /\ currentPage = initialPage
  /\ isLoading = FALSE
  /\ error = Null
  /\ prompt = <<>>
  /\ inflight = <<>>
  /\ lastEvent = [type |-> "init"]
  /\ prev = [story |-> Null, currentPage |-> initialPage, isLoading |-> FALSE,
             error |-> Null, prompt |-> <<>>, inflight |-> <<>>]
  /\ txt = <<>>
  /\ html = Null

\* onChange={(e) => setPrompt(e.target.value)}
setPrompt ==
  /\ ~inputDisabled(isLoading)
  /\ \E p \in Prompts : prompt' = p /\ p # prompt
  /\ Record([type |-> "change"])
  /\ UNCHANGED <<story, currentPage, isLoading, error, inflight, txt, html>>

\* the form's submit event
handleSubmit ==
  /\ Len(inflight) < MaxOutstanding
  /\ IF canSubmit(prompt, isLoading)
     THEN handleGenerateStory(submittedPrompt(prompt))
     ELSE UNCHANGED <<isLoading, inflight>>
  /\ Record([type |-> "submit"])
  /\ UNCHANGED <<story, currentPage, error, prompt, txt, html>>

\* the oldest outstanding request completes with a story
responseOk ==
  /\ inflight # <<>>
  /\ \E s \in Stories :
       LET n == GenerateSucceeded(session, s)
       IN /\ story' = n.story
          /\ currentPage' = n.currentPage
          /\ error' = n.error
          /\ isLoading' = n.isLoading
          /\ Record([type |-> "success", story |-> s])
  /\ inflight' = Tail(inflight)
  /\ UNCHANGED <<prompt, txt, html>>

\* the oldest outstanding request fails
responseFailed ==
  /\ inflight # <<>>
  /\ \E k \in FailureKinds :
       LET n == GenerateFailed(session, k)
       IN /\ story' = n.story
          /\ currentPage' = n.currentPage
          /\ error' = n.error
          /\ isLoading' = n.isLoading
          /\ Record([type |-> "failure", kind |-> k])
  /\ inflight' = Tail(inflight)
  /\ UNCHANGED <<prompt, txt, html>>

\* a click on the Next button
clickNext ==
  /\ navVisible
  /\ currentPage' = IF nextDisabled(currentPage, totalPages)
                    THEN currentPage
                    ELSE handleNextPage(currentPage, totalPages)
  /\ Record([type |-> "next"])
  /\ UNCHANGED <<story, isLoading, error, prompt, inflight, txt, html>>

\* a click on the Previous button
clickPrevious ==
  /\ navVisible
  /\ currentPage' = IF previousDisabled(currentPage, totalPages)
                    THEN currentPage
                    ELSE handlePreviousPage(currentPage)
  /\ Record([type |-> "previous"])
  /\ UNCHANGED <<story, isLoading, error, prompt, inflight, txt, html>>

\* onClick={() => setError(null)}
dismissError ==
  /\ error # Null
  /\ error' = Null
  /\ Record([type |-> "dismiss"])
  /\ UNCHANGED <<story, currentPage, isLoading, prompt, inflight, txt, html>>

Next ==
  \/ setPrompt
  \/ handleSubmit
  \/ responseOk
  \/ responseFailed
  \/ clickNext
  \/ clickPrevious
  \/ dismissError

Spec == Init /\ [][Next]_vars

(* ------------------- the Book transform on its own --------------------- *)
Alphabet == {"a", "*", "#", SP, NL}
Texts == UNION { [1..n -> Alphabet] : n \in 0..MaxTextLen }

InitText ==
  /\ story = Null
  /\ currentPage = 1
  /\ isLoading = FALSE
  /\ error = Null
  /\ prompt = <<>>
  /\ inflight = <<>>
  /\ lastEvent = [type |-> "init"]
  /\ prev = [story |-> Null, currentPage |-> 1, isLoading |-> FALSE,
             error |-> Null, prompt |-> <<>>, inflight |-> <<>>]
  /\ txt \in Texts
  /\ html = Null

\* Book renders txt as its left content
renderText ==
  /\ html = Null
  /\ html' = Some(innerHTML(txt))
  /\ UNCHANGED <<story, currentPage, isLoading, error, prompt, inflight,
                 lastEvent, prev, txt>>

NextText == renderText

SpecText == InitText /\ [][NextText]_vars

(* ============================== claims ================================= *)
Max(a, b) == IF a >= b THEN a ELSE b

\* every character of q is white space
AllSpace(q) == \A i \in 1..Len(q) : IsSpace(q[i])

\* p is q without its leading and trailing white space, and is not empty
IsTrimOf(p, q) ==
  /\ p # <<>>
  /\ ~IsSpace(p[1]) /\ ~IsSpace(p[Len(p)])
  /\ \E i \in 0..Len(q) :
       /\ i + Len(p) <= Len(q)
       /\ SubSeq(q, i + 1, i + Len(p)) = p
       /\ AllSpace(SubSeq(q, 1, i))
       /\ AllSpace(SubSeq(q, i + Len(p) + 1, Len(q)))

\* C1: in every reachable state totalPages is max(1, n) for the n parts of
\* the stored story (n = 0 without a story) and 1 <= currentPage <= totalPages.
C1_PageWithinBounds ==
  /\ totalPages = Max(1, Len(partsOf(story)))
  /\ pageContent.totalPages = totalPages
  /\ 1 <= currentPage /\ currentPage <= totalPages

\* a longer story was replaced by a shorter one while the user was on a page
\* the new story does not have
C1_Witness ==
  /\ lastEvent.type = "success"
  /\ prev.currentPage >= 2
  /\ Len(partsOf(story)) < prev.currentPage
  /\ Len(partsOf(prev.story)) > Len(partsOf(story))

\* C2: a click on Next leaves currentPage alone on the last page and adds one
\* on every other page; a click on Previous leaves it alone on page 1 and
\* subtracts one on every other page.
C2_AdvanceRetreatByOne ==
  /\ lastEvent.type = "next" =>
       currentPage = IF prev.currentPage = totalPagesOf(prev.story)
                     THEN prev.currentPage ELSE prev.currentPage + 1
  /\ lastEvent.type = "previous" =>
       currentPage = IF prev.currentPage = 1
                     THEN prev.currentPage ELSE prev.currentPage - 1

\* Next was clicked on the last page of a story of several pages
C2_Witness ==
  /\ lastEvent.type = "next"
  /\ totalPagesOf(prev.story) >= 2
  /\ prev.currentPage = totalPagesOf(prev.story)

\* C3: right after a successful response the stored story is the received
\* story, whole, and currentPage is 1, whatever the page was before.
C3_SuccessReplacesAndResets ==
  lastEvent.type = "success" =>
    /\ story = Some(lastEvent.story)
    /\ partsOf(story) = lastEvent.story.parts
    /\ currentPage = 1

\* a different story arrived while the user was on a later page of the old one
C3_Witness ==
  /\ lastEvent.type = "success"
  /\ prev.story # Null
  /\ prev.story # story
  /\ prev.currentPage > 1

\* C4: a submit of a prompt that is not blank issues exactly one request when
\* none is in flight, and issues none and changes nothing when one is; at
\* most one request is ever outstanding.
C4_SingleRequest ==
  /\ Len(inflight) <= 1
  /\ (lastEvent.type = "submit" /\ ~AllSpace(prev.prompt)) =>
       IF prev.inflight = <<>>
       THEN Len(inflight) = 1
       ELSE session = prev

\* a prompt that is not blank was submitted while a request was in flight
C4_Witness ==
  /\ lastEvent.type = "submit"
  /\ ~AllSpace(prev.prompt)
  /\ prev.inflight # <<>>

\* C5: right after a failed response the story and currentPage are what they
\* were, error is a non-empty message, and a story that was shown can still
\* be navigated.
C5_FailureKeepsStory ==
  lastEvent.type = "failure" =>
    /\ story = prev.story
    /\ currentPage = prev.currentPage
    /\ error # Null /\ Val(error) # ""
    /\ (prev.story # Null => navVisible)

\* a request failed while page 2 or later of a story was shown
C5_Witness ==
  /\ lastEvent.type = "failure"
  /\ prev.story # Null
  /\ prev.currentPage > 1

\* C6: a submit of a blank prompt sends nothing and leaves the session as it
\* was; a request that is sent carries the input without its surrounding
\* white space, and that is not empty.
C6_BlankPromptRejected ==
  /\ (lastEvent.type = "submit" /\ AllSpace(prev.prompt)) => session = prev
  /\ (lastEvent.type = "submit" /\ Len(inflight) > Len(prev.inflight)) =>
       IsTrimOf(inflight[Len(inflight)].prompt, prev.prompt)

\* a prompt of white space only was submitted while nothing was in flight
C6_Witness ==
  /\ lastEvent.type = "submit"
  /\ prev.prompt = <<SP>>
  /\ ~prev.isLoading

\* C7: isLoading is true exactly while a request is outstanding; after a
\* completion of either kind it is false.
C7_LoadingIffInFlight ==
  /\ isLoading <=> inflight # <<>>
  /\ lastEvent.type \in {"success", "failure"} => ~isLoading

\* a submission was accepted after an earlier request had failed
C7_Witness ==
  /\ lastEvent.type = "submit"
  /\ isLoading /\ ~prev.isLoading
  /\ error # Null

\* C8: the left text and the right image of the view are the text and image
\* of the part at currentPage, each empty when the page is out of range or
\* the field is missing; the start placeholder shows exactly when the text
\* is empty and the placeholder illustration exactly when the image is.
C8_ViewShowsOnePart ==
  LET parts == partsOf(story)
      inRange == currentPage \in 1..Len(parts)
      text == IF inRange /\ "text" \in DOMAIN parts[currentPage]
              THEN parts[currentPage].text ELSE <<>>
      image == IF inRange /\ "image" \in DOMAIN parts[currentPage]
               THEN parts[currentPage].image ELSE ""
  IN /\ pageContent.leftText = text
     /\ pageContent.rightImage = image
     /\ (bookView.left.kind = "startPlaceholder") <=> (text = <<>>)
     /\ (bookView.right.kind = "placeholderIllustration") <=> (image = "")
     /\ bookView.right.kind = "img" => bookView.right.src = image

\* page 2 shows a part that has a text and no image
C8_Witness ==
  /\ currentPage = 2
  /\ Len(partsOf(story)) >= 2
  /\ DOMAIN partsOf(story)[2] = {"text"}
  /\ bookView.left.kind = "text"
  /\ bookView.right.kind = "placeholderIllustration"

\* a **...** pair: ** at i and ** again at or after i + 2
HasBoldPattern(s) ==
  \E i, j \in 1..Len(s) :
    /\ j >= i + 2 /\ j + 1 <= Len(s)
    /\ s[i] = "*" /\ s[i + 1] = "*" /\ s[j] = "*" /\ s[j + 1] = "*"

\* a line that starts with ##
HasHeadingLine(s) ==
  \E i \in 1..Len(s) :
    /\ i + 1 <= Len(s)
    /\ s[i] = "#" /\ s[i + 1] = "#"
    /\ (i = 1 \/ s[i - 1] = NL)

\* C9: the transform rewrites only **...** and lines that start with ##; a
\* text with neither, also one with ## elsewhere in a line, is rendered
\* unchanged.
C9_OnlyTwoPatterns ==
  (html # Null /\ ~HasBoldPattern(txt) /\ ~HasHeadingLine(txt)) => Val(html) = txt

\* C10: without a story the navigation control is not rendered, no click on
\* it happens and currentPage is 1; with a story, also one without parts,
\* it shows totalPages dots and highlights the one dot of currentPage.
C10_NavigationControl ==
  /\ story = Null =>
       /\ ~navVisible
       /\ currentPage = 1
       /\ lastEvent.type \notin {"next", "previous"}
  /\ story # Null =>
       /\ navVisible
       /\ Cardinality(dots(totalPages)) = Max(1, Len(partsOf(story)))
       /\ highlightedDots = {currentPage - 1}

\* a story without parts is stored
C10_Witness ==
  /\ story # Null
  /\ Len(partsOf(story)) = 0
  /\ navVisible

====
